---- MODULE Spec2Model ----
(***************************************************************************)
(* Model of src/simple_photo_meta/exiv2_bindings.cpp: the Exiv2Bind        *)
(* adapter (open, getIptcTag, setIptcTag, to_dict, from_dict) over the     *)
(* IPTC record list of an image file.                                      *)
(*                                                                         *)
(* A raw record is [key |-> canonical Exiv2 key, val |-> string].  The     *)
(* record list of the library (Exiv2::IptcData) is a sequence: findKey     *)
(* returns the first match, erase removes one element and yields the       *)
(* position of its successor, add appends at the end.                      *)
(***************************************************************************)
EXTENDS Integers, Sequences, FiniteSets, TLC

VARIABLES state, data, file, writable, last, calls

vars == <<state, data, file, writable, last, calls>>

(***************************************************************************)
(* Bounds of the model.                                                    *)
(***************************************************************************)
\* longest record list a file holds when it is opened
MaxLen == 3
\* number of calls made on the opened adapter in one behaviour
MaxCalls == 2

\* the adapter instances; Spec drives the single instance "A"
Instances == {"A", "B"}
Users == {"A"}

\* string values stored in records and passed by callers
Values == {"a", "b"}
\* a Python object that is not a str (v.cast<std::string>() throws on it)
NotAString == "<int>"

(***************************************************************************)
(* The library's view of keys (Exiv2::IptcKey).  Each entry: the canonical *)
(* key string, record id, dataset number, dataset name (tagName) and       *)
(* whether the dataset is repeatable.                                      *)
(***************************************************************************)
KeyTable ==
  { [key |-> "Iptc.Application2.Byline",   rec |-> 2, tag |-> 80,
     name |-> "Byline",   rep |-> TRUE],
    [key |-> "Iptc.Application2.Caption",  rec |-> 2, tag |-> 120,
     name |-> "Caption",  rep |-> FALSE],
    [key |-> "Iptc.Application2.Keywords", rec |-> 2, tag |-> 25,
     name |-> "Keywords", rep |-> TRUE],
    [key |-> "Iptc.Application2.0x00c8",   rec |-> 2, tag |-> 200,
     name |-> "0x00c8",   rep |-> TRUE],
    [key |-> "Iptc.Envelope.0x00c8",       rec |-> 1, tag |-> 200,
     name |-> "0x00c8",   rep |-> TRUE] }

CanonKeys == { e.key : e \in KeyTable }

\* std::set<std::string> / std::map iteration order of the canonical keys
SortedKeys ==
  << "Iptc.Application2.0x00c8",
     "Iptc.Application2.Byline",
     "Iptc.Application2.Caption",
     "Iptc.Application2.Keywords",
     "Iptc.Envelope.0x00c8" >>

\* Datasets the library has no name for: a file may hold records of them,
\* and the library names them by their number, whatever the record id.
UnnamedKeys == {"Iptc.Application2.0x00c8", "Iptc.Envelope.0x00c8"}

\* Key strings a caller may pass that IptcKey accepts although they are not
\* canonical: a dataset given by number is renamed to its dataset name.
HexSpelling == [ k \in {"Iptc.Application2.0x0019"} |-> "Iptc.Application2.Keywords" ]

\* Key strings whose dataset name the library does not know: IptcKey throws.
UnknownDatasetKeys == {"Iptc.Application2.CopyrightNotice"}

\* key strings callers pass to getIptcTag / setIptcTag
TagKeys == (CanonKeys \ UnnamedKeys) \cup DOMAIN HexSpelling \cup UnknownDatasetKeys

\* Exiv2::IptcKey(key): does the constructor succeed
ValidKey(k) == k \in CanonKeys \/ k \in DOMAIN HexSpelling

\* Exiv2::IptcKey(key).key(): the canonical spelling of an accepted key
Canon(k) == IF k \in CanonKeys THEN k ELSE HexSpelling[k]

Entry(kc) == CHOOSE e \in KeyTable : e.key = kc

\* Exiv2::IptcKey::tagName()
tagName(kc) == Entry(kc).name

\* IptcDataSets::dataSetRepeatable(tag, record)
Repeatable(kc) == Entry(kc).rep

(***************************************************************************)
(* Exiv2::IptcData operations used by the adapter.                         *)
(***************************************************************************)
\* data.end()
End(d) == Len(d) + 1

\* FindIptcdatum: the first position from n on whose record has the record
\* id and dataset number of the entry e, or End(d)
RECURSIVE FindFrom(_, _, _)
FindFrom(d, e, n) ==
  IF n > Len(d) THEN n
  ELSE IF Entry(d[n].key).rec = e.rec /\ Entry(d[n].key).tag = e.tag THEN n
  ELSE FindFrom(d, e, n + 1)

\* data.findKey(iptcKey): position of the first record with the key's
\* record id and dataset number, or End(d)
findKey(d, k) == FindFrom(d, Entry(Canon(k)), 1)

\* data.erase(it): the list without the element at pos
erase(d, pos) == SubSeq(d, 1, pos - 1) \o SubSeq(d, pos + 1, Len(d))

\* the erase loop written as an if: one record is erased
EraseWhile_Once(d, pos, k) ==
  IF pos # End(d) /\ d[pos].key = k
    THEN erase(d, pos)
    ELSE d

\* while (it != data.end() && it->key() == key) it = data.erase(it);
RECURSIVE EraseWhile(_, _, _)
EraseWhile(d, pos, k) ==
  IF pos # End(d) /\ d[pos].key = k
    THEN EraseWhile(erase(d, pos), pos, k)
    ELSE d

\* auto it = data.findKey(iptcKey); followed by the erase loop
EraseMatching(d, k) == EraseWhile(d, findKey(d, k), k)

\* data.add(datum): refused when the dataset is not repeatable and a record
\* of it is already stored; appended at the end otherwise
add(d, kc, v) ==
  IF ~Repeatable(kc) /\ findKey(d, kc) # End(d)
    THEN d
    ELSE Append(d, [key |-> kc, val |-> v])

\* record ids in ascending order
RecordOrder == <<1, 2>>

\* image_->writeMetadata(): the records are encoded ordered by record id,
\* records of one record id keeping their order
RECURSIVE EncodeFrom(_, _)
EncodeFrom(d, n) ==
  IF n > Len(RecordOrder) THEN <<>>
  ELSE SelectSeq(d, LAMBDA r : Entry(r.key).rec = RecordOrder[n])
         \o EncodeFrom(d, n + 1)

Encode(d) == EncodeFrom(d, 1)

\* image_->readMetadata(): the file's records are added one by one, in file
\* order, to an empty list (so a second record of a dataset that is not
\* repeatable is not loaded)
RECURSIVE Decode(_)
Decode(f) ==
  IF f = <<>> THEN <<>>
  ELSE LET r == f[Len(f)]
       IN add(Decode(SubSeq(f, 1, Len(f) - 1)), r.key, r.val)

(***************************************************************************)
(* getIptcTag / setIptcTag as functions of the record list.                *)
(***************************************************************************)
\* getIptcTag returning the value of the last record of the key
getIptcTag_LastMatch(d, k) ==
  LET hit == { n \in 1..Len(d) : d[n].key = Canon(k) }
  IN IF hit = {} THEN "" ELSE d[CHOOSE n \in hit : \A m \in hit : m <= n].val

\* getIptcTag: value of the first record found, or the empty string
getIptcTag(d, k) ==
  LET pos == findKey(d, k)
  IN IF pos # End(d) THEN d[pos].val ELSE ""

\* setIptcTag up to data.add(datum): the mutated in-memory list
setIptcTag(d, k, v) == add(EraseMatching(d, k), Canon(k), v)

(***************************************************************************)
(* Documents (the canonical representation).  A value is a scalar or a     *)
(* list: [t |-> "str", s |-> string] or [t |-> "list", l |-> sequence].    *)
(***************************************************************************)
\* a document without an "iptc" section
NoDoc == [has |-> FALSE, sec |-> <<>>]

Scalar(x) == [t |-> "str", s |-> x, l |-> <<>>]
List(xs) == [t |-> "list", s |-> "", l |-> xs]

\* humanToRawKey: the entries of the static table the model keeps
humanToRawKey ==
  [ lbl \in {"By-line", "Caption", "CopyrightNotice", "Keywords"} |->
      CASE lbl = "By-line"         -> "Iptc.Application2.Byline"
        [] lbl = "Caption"         -> "Iptc.Application2.Caption"
        [] lbl = "CopyrightNotice" -> "Iptc.Application2.CopyrightNotice"
        [] lbl = "Keywords"        -> "Iptc.Application2.Keywords" ]

\* iteration order of std::map<std::string, py::object> over the labels
SortedLabels == << "By-line", "Byline", "Caption", "CopyrightNotice", "Keywords" >>

(***************************************************************************)
(* to_dict.                                                                *)
(***************************************************************************)
\* std::set<std::string> uniqueKeys: the keys present
uniqueKeys(d) == { d[i].key : i \in 1..Len(d) }

\* label = iptcKey.tagName(); if (label.empty()) label = rawKey;
LabelOf(rawKey) == IF tagName(rawKey) = "" THEN rawKey ELSE tagName(rawKey)

\* while (it != data.end() && it->key() == rawKey) { push_back; ++it; }
RECURSIVE CollectWhile(_, _, _)
CollectWhile(d, pos, rawKey) ==
  IF pos # End(d) /\ d[pos].key = rawKey
    THEN <<d[pos].val>> \o CollectWhile(d, pos + 1, rawKey)
    ELSE <<>>

\* auto it = data.findKey(iptcKey); followed by the collecting loop
CollectValues(d, rawKey) == CollectWhile(d, findKey(d, rawKey), rawKey)

\* for (v : values) if (seen.insert(v).second) uniq.push_back(v);
RECURSIVE Deduplicate(_)
Deduplicate(values) ==
  IF values = <<>> THEN <<>>
  ELSE LET front == Deduplicate(SubSeq(values, 1, Len(values) - 1))
           v == values[Len(values)]
       IN IF \E i \in 1..Len(front) : front[i] = v THEN front ELSE Append(front, v)

\* AssignLabel without the multi-valued flag of "Keywords"
AssignLabel_NoMultiFlag(out, d, rawKey) ==
  LET label == LabelOf(rawKey)
      uniq == Deduplicate(CollectValues(d, rawKey))
  IN IF Len(uniq) > 1
       THEN (label :> List(uniq)) @@ out
       ELSE IF uniq # <<>>
         THEN (label :> Scalar(uniq[1])) @@ out
         ELSE out

\* AssignLabel that keeps an entry the output already has for the label
AssignLabel_KeepFirst(out, d, rawKey) ==
  LET label == LabelOf(rawKey)
      uniq == Deduplicate(CollectValues(d, rawKey))
      isMulti == (label = "Keywords")
  IN IF Len(uniq) > 1 \/ isMulti
       THEN out @@ (label :> List(uniq))
       ELSE IF uniq # <<>>
         THEN out @@ (label :> Scalar(uniq[1]))
         ELSE out

\* the "Multi vs single" assignment: the output with the entry for rawKey
AssignLabel(out, d, rawKey) ==
  LET label == LabelOf(rawKey)
      uniq == Deduplicate(CollectValues(d, rawKey))
      isMulti == (label = "Keywords")
  IN IF Len(uniq) > 1 \/ isMulti
       THEN (label :> List(uniq)) @@ out
       ELSE IF uniq # <<>>
         THEN (label :> Scalar(uniq[1])) @@ out
         ELSE out

\* for (rawKey : uniqueKeys), in sorted order
RECURSIVE ToDictFrom(_, _, _)
ToDictFrom(out, d, n) ==
  IF n > Len(SortedKeys) THEN out
  ELSE IF SortedKeys[n] \in uniqueKeys(d)
    THEN ToDictFrom(AssignLabel(out, d, SortedKeys[n]), d, n + 1)
    ELSE ToDictFrom(out, d, n + 1)

\* to_dict(): the mapping stored under "iptc"
to_dict(d) == ToDictFrom(<<>>, d, 1)

(***************************************************************************)
(* from_dict.  Each step yields the record list and a status; a status     *)
(* other than "ok" is the exception that ended the call.                   *)
(***************************************************************************)
\* for (v : valObj.cast<py::list>()) { vs = v.cast<std::string>(); data.add(...) }
RECURSIVE AddList(_, _, _, _)
AddList(d, kc, xs, n) ==
  IF n > Len(xs) THEN [data |-> d, status |-> "ok"]
  ELSE IF xs[n] = NotAString THEN [data |-> d, status |-> "CastError"]
  ELSE AddList(add(d, kc, xs[n]), kc, xs, n + 1)

\* ImportPair raising an error for a label the table does not hold
ImportPair_ThrowUnknown(d, label, val) ==
  IF label \notin DOMAIN humanToRawKey
    THEN [data |-> d, status |-> "KeyError"]
    ELSE LET rawKey == humanToRawKey[label]
         IN IF ~ValidKey(rawKey)
              THEN [data |-> d, status |-> "KeyError"]
              ELSE LET e == EraseMatching(d, rawKey)
                   IN IF val.t = "list"
                        THEN AddList(e, Canon(rawKey), val.l, 1)
                        ELSE IF val.s = NotAString
                          THEN [data |-> e, status |-> "CastError"]
                          ELSE [data |-> add(e, Canon(rawKey), val.s), status |-> "ok"]

\* ImportPair resolving a label the table does not hold through the
\* library's dataset names
ImportPair_ByTagName(d, label, val) ==
  LET named == { kc \in CanonKeys : tagName(kc) = label }
  IN IF label \notin DOMAIN humanToRawKey /\ named = {}
       THEN [data |-> d, status |-> "ok"]
       ELSE LET rawKey == IF label \in DOMAIN humanToRawKey
                            THEN humanToRawKey[label]
                            ELSE CHOOSE kc \in named : TRUE
            IN IF ~ValidKey(rawKey)
                 THEN [data |-> d, status |-> "KeyError"]
                 ELSE LET e == EraseMatching(d, rawKey)
                      IN IF val.t = "list"
                           THEN AddList(e, Canon(rawKey), val.l, 1)
                           ELSE IF val.s = NotAString
                             THEN [data |-> e, status |-> "CastError"]
                             ELSE [data |-> add(e, Canon(rawKey), val.s), status |-> "ok"]

\* the body of the loop over the section for one (label, value) pair
ImportPair(d, label, val) ==
  IF label \notin DOMAIN humanToRawKey
    THEN [data |-> d, status |-> "ok"]
    ELSE LET rawKey == humanToRawKey[label]
         IN IF ~ValidKey(rawKey)
              THEN [data |-> d, status |-> "KeyError"]
              ELSE LET e == EraseMatching(d, rawKey)
                   IN IF val.t = "list"
                        THEN AddList(e, Canon(rawKey), val.l, 1)
                        ELSE IF val.s = NotAString
                          THEN [data |-> e, status |-> "CastError"]
                          ELSE [data |-> add(e, Canon(rawKey), val.s), status |-> "ok"]

\* for (kv : section), in the order of the labels
RECURSIVE ImportFrom(_, _, _)
ImportFrom(d, sec, n) ==
  IF n > Len(SortedLabels) THEN [data |-> d, status |-> "ok"]
  ELSE LET label == SortedLabels[n]
       IN IF label \notin DOMAIN sec THEN ImportFrom(d, sec, n + 1)
          ELSE LET r == ImportPair(d, label, sec[label])
               IN IF r.status # "ok" THEN r ELSE ImportFrom(r.data, sec, n + 1)

\* from_dict saving also when the document has no "iptc" section
from_dict_SaveAlways(d, doc) ==
  IF ~doc.has
    THEN [data |-> d, status |-> "ok", save |-> TRUE]
    ELSE LET r == ImportFrom(d, doc.sec, 1)
         IN [data |-> r.data, status |-> r.status, save |-> (r.status = "ok")]

\* from_dict saving whatever was applied when a pair raised
from_dict_SaveOnError(d, doc) ==
  IF ~doc.has
    THEN [data |-> d, status |-> "ok", save |-> FALSE]
    ELSE LET r == ImportFrom(d, doc.sec, 1)
         IN [data |-> r.data, status |-> r.status, save |-> TRUE]

\* from_dict up to the save: the mutated list, the status so far and whether
\* the call goes on to setIptcData / writeMetadata
from_dict(d, doc) ==
  IF ~doc.has
    THEN [data |-> d, status |-> "ok", save |-> FALSE]
    ELSE LET r == ImportFrom(d, doc.sec, 1)
         IN [data |-> r.data, status |-> r.status, save |-> (r.status = "ok")]

(***************************************************************************)
(* Documents callers pass to from_dict.                                    *)
(***************************************************************************)
DocLabels == { SortedLabels[n] : n \in 1..Len(SortedLabels) }

DocValues ==
  { Scalar("a"), Scalar(NotAString),
    List(<<>>), List(<<"a">>), List(<<"a", "b">>), List(<<"b", "b">>) }

\* labels and values of the documents that carry two pairs
PairLabels == {"By-line", "Byline", "Caption", "Keywords"}
PairValues == { Scalar("a"), Scalar(NotAString) }

Sections ==
  { (l :> v) : l \in DocLabels, v \in DocValues }
  \cup UNION { [ls -> PairValues] : ls \in { x \in SUBSET PairLabels : Cardinality(x) = 2 } }

Docs == {NoDoc} \cup { [has |-> TRUE, sec |-> s] : s \in Sections }

(***************************************************************************)
(* State.                                                                  *)
(***************************************************************************)
\* datasets of the records a file holds when the model starts
FileKeys == {"Iptc.Application2.Byline", "Iptc.Application2.Keywords"}

Records == [key : FileKeys, val : Values]

RECURSIVE SeqsUpTo(_, _)
SeqsUpTo(S, n) ==
  IF n = 0 THEN { <<>> }
  ELSE LET shorter == SeqsUpTo(S, n - 1)
       IN shorter \cup { Append(s, x) : s \in { t \in shorter : Len(t) = n - 1 }, x \in S }

NoCall == [inst |-> "", op |-> "none", key |-> "", value |-> "", doc |-> NoDoc,
           status |-> "ok", flushes |-> 0, retStr |-> "", retDoc |-> <<>>]

Init ==
  /\ state = [i \in Instances |-> "Closed"]
  /\ data = [i \in Instances |-> <<>>]
  /\ file \in SeqsUpTo(Records, MaxLen)
  /\ writable = TRUE
  /\ last = NoCall
  /\ calls = 0

\* a constructor that may be run again on an instance whose open raised
Open_Retry(i, ok) ==
  /\ state[i] \in {"Closed", "FailedOpen"}
  /\ state' = [state EXCEPT ![i] = IF ok THEN "Opened" ELSE "FailedOpen"]
  /\ data' = [data EXCEPT ![i] = IF ok THEN Decode(file) ELSE <<>>]
  /\ last' = [NoCall EXCEPT !.inst = i, !.op = "open",
                            !.status = IF ok THEN "ok" ELSE "OpenError"]
  /\ UNCHANGED <<file, writable, calls>>

\* Exiv2Bind(path): ImageFactory::open / readMetadata either throw, or the
\* file's records are loaded, in file order, into the instance's snapshot
Open(i, ok) ==
  /\ state[i] = "Closed"
  /\ state' = [state EXCEPT ![i] = IF ok THEN "Opened" ELSE "FailedOpen"]
  /\ data' = [data EXCEPT ![i] = IF ok THEN Decode(file) ELSE <<>>]
  /\ last' = [NoCall EXCEPT !.inst = i, !.op = "open",
                            !.status = IF ok THEN "ok" ELSE "OpenError"]
  /\ UNCHANGED <<file, writable, calls>>

\* the methods bound on the class
CallOps == {"getIptcTag", "setIptcTag", "to_dict", "from_dict"}

\* a method invoked on an instance that was not constructed, or whose
\* constructor threw: no Exiv2Bind object exists, so the binding raises
\* before any method body runs
RejectedCall(i, op) ==
  /\ state[i] # "Opened"
  /\ last' = [NoCall EXCEPT !.inst = i, !.op = op,
                            !.status = "PreconditionViolation"]
  /\ UNCHANGED <<state, data, file, writable, calls>>

\* getIptcTag(key)
GetTag(i, k) ==
  /\ state[i] = "Opened"
  /\ calls < MaxCalls
  /\ calls' = calls + 1
  /\ last' = [NoCall EXCEPT !.inst = i, !.op = "getIptcTag", !.key = k,
                !.status = IF ValidKey(k) THEN "ok" ELSE "KeyError",
                !.retStr = IF ValidKey(k) THEN getIptcTag(data[i], k) ELSE ""]
  /\ UNCHANGED <<state, data, file, writable>>

\* setIptcTag that loads the file's records again before it changes them
SetTag_Reload(i, k, v) ==
  /\ state[i] = "Opened"
  /\ calls < MaxCalls
  /\ calls' = calls + 1
  /\ IF ~ValidKey(k)
       THEN /\ last' = [NoCall EXCEPT !.inst = i, !.op = "setIptcTag", !.key = k,
                                      !.value = v, !.status = "KeyError"]
            /\ UNCHANGED <<data, file>>
       ELSE /\ data' = [data EXCEPT ![i] = setIptcTag(Decode(file), k, v)]
            /\ file' = IF writable THEN Encode(data'[i]) ELSE file
            /\ last' = [NoCall EXCEPT !.inst = i, !.op = "setIptcTag", !.key = k,
                          !.value = v, !.flushes = 1,
                          !.status = IF writable THEN "ok" ELSE "WriteError"]
  /\ UNCHANGED <<state, writable>>

\* setIptcTag that returns without calling writeMetadata()
SetTag_NoSave(i, k, v) ==
  /\ state[i] = "Opened"
  /\ calls < MaxCalls
  /\ calls' = calls + 1
  /\ IF ~ValidKey(k)
       THEN /\ last' = [NoCall EXCEPT !.inst = i, !.op = "setIptcTag", !.key = k,
                                      !.value = v, !.status = "KeyError"]
            /\ UNCHANGED data
       ELSE /\ data' = [data EXCEPT ![i] = setIptcTag(data[i], k, v)]
            /\ last' = [NoCall EXCEPT !.inst = i, !.op = "setIptcTag", !.key = k,
                          !.value = v, !.flushes = 1, !.status = "ok"]
  /\ UNCHANGED <<state, file, writable>>

\* setIptcTag(key, value); writeMetadata() throws when storage rejects the write
SetTag(i, k, v) ==
  /\ state[i] = "Opened"
  /\ calls < MaxCalls
  /\ calls' = calls + 1
  /\ IF ~ValidKey(k)
       THEN /\ last' = [NoCall EXCEPT !.inst = i, !.op = "setIptcTag", !.key = k,
                                      !.value = v, !.status = "KeyError"]
            /\ UNCHANGED <<data, file>>
       ELSE /\ data' = [data EXCEPT ![i] = setIptcTag(data[i], k, v)]
            /\ file' = IF writable THEN Encode(data'[i]) ELSE file
            /\ last' = [NoCall EXCEPT !.inst = i, !.op = "setIptcTag", !.key = k,
                          !.value = v, !.flushes = 1,
                          !.status = IF writable THEN "ok" ELSE "WriteError"]
  /\ UNCHANGED <<state, writable>>

\* to_dict()
ToDict(i) ==
  /\ state[i] = "Opened"
  /\ calls < MaxCalls
  /\ calls' = calls + 1
  /\ last' = [NoCall EXCEPT !.inst = i, !.op = "to_dict", !.retDoc = to_dict(data[i])]
  /\ UNCHANGED <<state, data, file, writable>>

\* from_dict(meta); writeMetadata() throws when storage rejects the write
FromDict(i, doc) ==
  /\ state[i] = "Opened"
  /\ calls < MaxCalls
  /\ calls' = calls + 1
  /\ LET r == from_dict(data[i], doc)
     IN /\ data' = [data EXCEPT ![i] = r.data]
        /\ file' = IF r.save /\ writable THEN Encode(r.data) ELSE file
        /\ last' = [NoCall EXCEPT !.inst = i, !.op = "from_dict", !.doc = doc,
                      !.flushes = IF r.save THEN 1 ELSE 0,
                      !.status = IF r.save /\ ~writable THEN "WriteError" ELSE r.status]
  /\ UNCHANGED <<state, writable>>

\* the environment: storage starts or stops accepting writes to the file
\* (permissions, disk space)
StorageChange ==
  /\ calls < MaxCalls
  /\ writable' = ~writable
  /\ UNCHANGED <<state, data, file, last, calls>>

Next ==
  \/ \E i \in Users :
       \/ \E ok \in BOOLEAN : Open(i, ok)
       \/ \E op \in CallOps : RejectedCall(i, op)
       \/ \E k \in TagKeys : GetTag(i, k)
       \/ \E k \in TagKeys, v \in Values : SetTag(i, k, v)
       \/ ToDict(i)
       \/ \E doc \in Docs : FromDict(i, doc)
  \/ StorageChange

Spec == Init /\ [][Next]_vars

(***************************************************************************)
(* Files holding records of datasets the library has no name for, in       *)
(* the Envelope and the Application2 record: their tag names coincide.     *)
(***************************************************************************)
UnnamedRecords == [key : UnnamedKeys, val : Values]

InitCollide ==
  /\ state = [i \in Instances |-> "Closed"]
  /\ data = [i \in Instances |-> <<>>]
  /\ file \in SeqsUpTo(UnnamedRecords, MaxLen)
  /\ writable = TRUE
  /\ last = NoCall
  /\ calls = 0

NextCollide ==
  \E i \in Users :
     \/ \E ok \in BOOLEAN : Open(i, ok)
     \/ \E k \in TagKeys : GetTag(i, k)
     \/ \E k \in TagKeys, v \in Values : SetTag(i, k, v)
     \/ ToDict(i)

SpecCollide == InitCollide /\ [][NextCollide]_vars

(***************************************************************************)
(* Two instances constructed on the same file, each writing tags.          *)
(***************************************************************************)
NextTwo ==
  \E i \in Instances :
     \/ \E ok \in BOOLEAN : Open(i, ok)
     \/ \E k \in TagKeys, v \in Values : SetTag(i, k, v)

SpecTwo == Init /\ [][NextTwo]_vars

(***************************************************************************)
(* Vocabulary of the properties.                                           *)
(***************************************************************************)
\* the records stored under one identifier: values, multiplicity, order
RecordsOf(d, kc) == SelectSeq(d, LAMBDA r : r.key = kc)

ValuesOf(d, kc) == [ n \in 1..Len(RecordsOf(d, kc)) |-> RecordsOf(d, kc)[n].val ]

\* the elements of a document value, a scalar counting as one element
Elems(v) == IF v.t = "list" THEN v.l ELSE <<v.s>>

ElemSet(v) == { Elems(v)[n] : n \in 1..Len(Elems(v)) }

\* labels of a document the table resolves / does not resolve
Recognized(doc) == DOMAIN doc.sec \cap DOMAIN humanToRawKey
Unrecognized(doc) == DOMAIN doc.sec \ DOMAIN humanToRawKey

\* identifiers the recognized labels of a document resolve to
ResolvedKeys(doc) ==
  { Canon(humanToRawKey[l]) : l \in { x \in Recognized(doc) : ValidKey(humanToRawKey[x]) } }

\* the document without the pairs of unrecognized labels
Stripped(doc) == [has |-> doc.has, sec |-> [ l \in Recognized(doc) |-> doc.sec[l] ]]

\* the step is a call of the named operation
CallStep(op) == calls' = calls + 1 /\ last'.op = op

\* the last call was the named operation and returned without error
Returned(op) == last.op = op /\ last.status = "ok"

(***************************************************************************)
(* C1.  Containment of writes: a successful setTag(k, v), from every       *)
(* Opened state (also after an earlier failed call), leaves the records of *)
(* every identifier other than k unchanged (values, multiplicity, order),  *)
(* in the in-memory snapshot and in the persisted file.                    *)
(***************************************************************************)
C1_WriteContained ==
  [][ (CallStep("setIptcTag") /\ last'.status = "ok") =>
        \A kc \in CanonKeys \ {Canon(last'.key)} :
          /\ RecordsOf(data'[last'.inst], kc) = RecordsOf(data[last'.inst], kc)
          /\ RecordsOf(file', kc) = RecordsOf(file, kc) ]_vars

(***************************************************************************)
(* C2.  write(k, v) replaces all records under k: after a successful       *)
(* write, whatever the order of the stored records, exactly one record has *)
(* identifier k, its value is v, and read(k) returns v.  Stated for k in   *)
(* the library's canonical spelling, the one records are stored under.     *)
(***************************************************************************)
C2_WriteReplacesAll ==
  (Returned("setIptcTag") /\ last.key \in CanonKeys) =>
    LET d == data[last.inst]
        kc == Canon(last.key)
    IN /\ ValuesOf(d, kc) = <<last.value>>
       /\ getIptcTag(d, last.key) = last.value

(***************************************************************************)
(* C3.  Idempotence of write: two successful write(k, v) calls in a row    *)
(* with the same v leave exactly one record under k, and the record list   *)
(* after the second call equals the one after the first.  Stated for k in  *)
(* the library's canonical spelling.                                       *)
(***************************************************************************)
C3_WriteIdempotent ==
  [][ ( /\ Returned("setIptcTag") /\ last.key \in CanonKeys
        /\ CallStep("setIptcTag") /\ last'.status = "ok"
        /\ last'.inst = last.inst /\ last'.key = last.key /\ last'.value = last.value ) =>
        /\ Len(RecordsOf(data'[last.inst], Canon(last.key))) = 1
        /\ data'[last.inst] = data[last.inst] ]_vars

(***************************************************************************)
(* C4.  Round trip: after a successful importDocument(d) of a document     *)
(* whose labels are all in the table, exportDocument() holds every label   *)
(* of d with an equal value: the same string for a scalar, a list with the *)
(* same set of elements for a list.                                        *)
(***************************************************************************)
C4_RoundTrip ==
  (Returned("from_dict") /\ last.doc.has /\ Unrecognized(last.doc) = {}) =>
    LET out == to_dict(data[last.inst])
    IN \A l \in DOMAIN last.doc.sec :
         /\ l \in DOMAIN out
         /\ out[l].t = last.doc.sec[l].t
         /\ IF last.doc.sec[l].t = "list"
              THEN ElemSet(out[l]) = ElemSet(last.doc.sec[l])
              ELSE out[l] = last.doc.sec[l]

(***************************************************************************)
(* C4, its first requirement alone: after a successful importDocument(d)   *)
(* of a document whose labels are all in the table and whose values are    *)
(* all scalars, every label of d is a key of the exported document.        *)
(***************************************************************************)
C4_RoundTripKeepsLabels ==
  ( /\ Returned("from_dict") /\ last.doc.has /\ Unrecognized(last.doc) = {}
    /\ \A l \in DOMAIN last.doc.sec : last.doc.sec[l].t = "str" ) =>
    \A l \in DOMAIN last.doc.sec : l \in DOMAIN to_dict(data[last.inst])

(***************************************************************************)
(* C5.  Import rewrites only the affected records: after a successful      *)
(* importDocument(d), the records of every identifier that is not the      *)
(* resolution of a label of d are unchanged, in the in-memory snapshot and *)
(* in the persisted file.                                                  *)
(***************************************************************************)
C5_ImportContained ==
  [][ (CallStep("from_dict") /\ last'.status = "ok") =>
        \A kc \in CanonKeys \ ResolvedKeys(last'.doc) :
          /\ RecordsOf(data'[last'.inst], kc) = RecordsOf(data[last'.inst], kc)
          /\ RecordsOf(file', kc) = RecordsOf(file, kc) ]_vars

(***************************************************************************)
(* C6.  Export gathering and deduplication: for every identifier present,  *)
(* the value exported under its label is built from all the records of     *)
(* that identifier, in storage order, keeping the first occurrence of each *)
(* distinct value; no value is missing, also when records of another       *)
(* identifier are stored between them.                                     *)
(***************************************************************************)
C6_ExportGathersAll ==
  Returned("to_dict") =>
    \A kc \in uniqueKeys(data[last.inst]) :
      /\ LabelOf(kc) \in DOMAIN last.retDoc
      /\ Elems(last.retDoc[LabelOf(kc)]) = Deduplicate(ValuesOf(data[last.inst], kc))

C8_UnknownLabelsIgnored ==
  [][ (CallStep("from_dict") /\ Unrecognized(last'.doc) # {}) =>
        LET i == last'.inst
            r == from_dict(data[i], Stripped(last'.doc))
        IN /\ data'[i] = r.data
           /\ last'.status = (IF r.save /\ ~writable THEN "WriteError" ELSE r.status)
           /\ file' = (IF r.save /\ writable THEN Encode(r.data) ELSE file)
           /\ Recognized(last'.doc) = {} => (data'[i] = data[i] /\ last'.status # "KeyError") ]_vars

\* a successful import of a document mixing an unknown label with "Caption",
\* whose value was applied
C8_Witness ==
  /\ Returned("from_dict")
  /\ DOMAIN last.doc.sec = {"Byline", "Caption"}
  /\ ValuesOf(data[last.inst], "Iptc.Application2.Caption") = <<"a">>
  /\ ValuesOf(file, "Iptc.Application2.Caption") = <<"a">>

(***************************************************************************)
(* C9.  Unknown labels are absent after import: after importDocument(d)    *)
(* the export holds no key equal to a label of d that is not in the table, *)
(* also when the file holds a record whose export label is that label.     *)
(***************************************************************************)
C9_UnknownLabelsAbsent ==
  Returned("from_dict") =>
    \A l \in Unrecognized(last.doc) : l \notin DOMAIN to_dict(data[last.inst])

(***************************************************************************)
(* C9, amended.  After importDocument(d) the export holds a key equal to   *)
(* an unknown label of d only if the export before the call held that key  *)
(* or the label is the library's name of an identifier that a recognized   *)
(* label of d resolves to: the unknown pair itself adds no key.            *)
(***************************************************************************)
C9_UnknownLabelsAddNoKey ==
  [][ CallStep("from_dict") =>
        \A l \in Unrecognized(last'.doc) :
          l \in DOMAIN to_dict(data'[last'.inst]) =>
            \/ l \in DOMAIN to_dict(data[last'.inst])
            \/ \E kc \in ResolvedKeys(last'.doc) : LabelOf(kc) = l ]_vars

\* an import whose document held the unknown label "Byline" while a record
\* named "Byline" by the library is stored: the export holds that key
C9_Witness ==
  /\ Returned("from_dict")
  /\ "Byline" \in DOMAIN last.doc.sec
  /\ "By-line" \notin DOMAIN last.doc.sec
  /\ "Byline" \in DOMAIN to_dict(data[last.inst])

(***************************************************************************)
(* C10.  Missing-section tolerance: importDocument(d) for a document       *)
(* without an "iptc" section returns successfully, changes no record of    *)
(* the snapshot and performs no flush, so the file is untouched.           *)
(***************************************************************************)
C10_MissingSectionNoOp ==
  [][ (CallStep("from_dict") /\ ~last'.doc.has) =>
        /\ last'.status = "ok"
        /\ last'.flushes = 0
        /\ data' = data
        /\ file' = file ]_vars

\* an import without section made while the snapshot differs from the file
\* (a flush would have changed the file)
C10_Witness ==
  /\ Returned("from_dict")
  /\ ~last.doc.has
  /\ Encode(data[last.inst]) # file

(***************************************************************************)
(* Further vocabulary.                                                     *)
(***************************************************************************)
\* the identifier a recognized label resolves to
KeyOf(l) == Canon(humanToRawKey[l])

\* recognized labels of a document whose identifier the library accepts
Applicable(doc) == { l \in Recognized(doc) : ValidKey(humanToRawKey[l]) }

\* the records a pair asks for: one per list element, or one for a scalar
AskedFor(v) == Elems(v)

\* the step is a write or import call
MutatingStep == CallStep("setIptcTag") \/ CallStep("from_dict")

(***************************************************************************)
(* C11.  Single flush per import: the persisted file never holds a state   *)
(* in which only some of a document's recognized pairs are applied.        *)
(* Stated for the call that follows an import which raised: a successful   *)
(* write to an identifier the document does not name must not bring a pair *)
(* of that document to the file while another pair of it is not applied.   *)
(***************************************************************************)
C11_NoPartialImportOnDisk ==
  [][ ( /\ last.op = "from_dict" /\ last.doc.has /\ last.status # "ok"
        /\ CallStep("setIptcTag") /\ last'.status = "ok"
        /\ last'.inst = last.inst
        /\ Canon(last'.key) \notin ResolvedKeys(last.doc) ) =>
        ~ \E l1 \in Applicable(last.doc), l2 \in Applicable(last.doc) :
             /\ l1 # l2
             /\ ValuesOf(file, KeyOf(l1)) # AskedFor(last.doc.sec[l1])
             /\ ValuesOf(file', KeyOf(l1)) = AskedFor(last.doc.sec[l1])
             /\ ValuesOf(file', KeyOf(l2)) # AskedFor(last.doc.sec[l2]) ]_vars

C13_WriteErrorKeepsMutation ==
  [][ ( /\ CallStep("setIptcTag") /\ last'.status = "WriteError"
        /\ last'.key \in CanonKeys ) =>
        /\ getIptcTag(data'[last'.inst], last'.key) = last'.value
        /\ file' = file ]_vars

C16_ImportReplacesRecords ==
  (Returned("from_dict") /\ last.doc.has) =>
     \A l \in Applicable(last.doc) :
        last.doc.sec[l].t = "str" =>
          ValuesOf(data[last.inst], KeyOf(l)) = <<last.doc.sec[l].s>>

(***************************************************************************)
(* C19.  Contiguity: if the records of every identifier form one           *)
(* contiguous run in the snapshot, they still do after a write or import   *)
(* call, successful or failed.  Stated step by step, for identifiers in    *)
(* the library's canonical spelling.                                       *)
(***************************************************************************)
Contiguous(d) ==
  \A m \in 1..Len(d), n \in 1..Len(d) :
     (m < n /\ d[m].key = d[n].key) => \A p \in m..n : d[p].key = d[m].key

SameRecords(f, d) == \A kc \in CanonKeys : RecordsOf(f, kc) = RecordsOf(d, kc)

PresentKeys(d) == { d[n].key : n \in 1..Len(d) }

KeyPos(k) == CHOOSE n \in 1..Len(SortedKeys) : SortedKeys[n] = k

LastOf(S) == CHOOSE k \in S : \A j \in S : KeyPos(j) <= KeyPos(k)

C17_CollisionLastWins ==
  Returned("to_dict") =>
    LET d == data[last.inst]
        out == last.retDoc
    IN /\ DOMAIN out = { tagName(k) : k \in PresentKeys(d) }
       /\ \A label \in DOMAIN out :
            LET k == LastOf({ j \in PresentKeys(d) : tagName(j) = label })
            IN out[label] = AssignLabel(<<>>, d, k)[label]

\* an export of a snapshot holding 'a' under the Application2 dataset 200
\* and 'b' under the Envelope dataset 200: one entry, holding 'b'
C17_Witness ==
  /\ Returned("to_dict")
  /\ ValuesOf(data[last.inst], "Iptc.Application2.0x00c8") = <<"a">>
  /\ ValuesOf(data[last.inst], "Iptc.Envelope.0x00c8") = <<"b">>
  /\ DOMAIN last.retDoc = {"0x00c8"}
  /\ last.retDoc["0x00c8"] = Scalar("b")

(***************************************************************************)
(* C18.  Concurrent instances are last-writer-wins: a write by an          *)
(* instance leaves the file holding that instance's snapshot, so the       *)
(* records of every other identifier are the ones of the writer's          *)
(* snapshot and what another instance had written under them is lost.      *)
(***************************************************************************)
C18_LastWriterWins ==
  [][ (CallStep("setIptcTag") /\ last'.status = "ok") =>
        LET j == last'.inst
        IN /\ file' = Encode(data'[j])
           /\ \A kc \in CanonKeys \ {Canon(last'.key)} :
                RecordsOf(file', kc) = RecordsOf(data[j], kc) ]_vars

\* A wrote a Caption, which no file holds at first, then B, opened before
\* that write, wrote Keywords: the file holds no Caption
C18_Witness ==
  /\ state["A"] = "Opened" /\ state["B"] = "Opened"
  /\ last.inst = "B" /\ Returned("setIptcTag")
  /\ last.key = "Iptc.Application2.Keywords"
  /\ RecordsOf(data["A"], "Iptc.Application2.Caption") # <<>>
  /\ RecordsOf(file, "Iptc.Application2.Caption") = <<>>

====
